---- MODULE Spec2Model ----
(***************************************************************************)
(* State-machine model of the Turtle class (src/src/turtle.ts): the        *)
(* dispatch rule of every public operation (run now, or push a step),      *)
(* the step queue, the interval timer that replays one step per tick, and  *)
(* the straight-line algorithm with wrapping at the canvas edges.          *)
(* stopDrawing and startDrawing are taken from the later revision of the   *)
(* class kept in src/unnamed/part_001.                                     *)
(*                                                                         *)
(* Numbers are integers: headings are multiples of 45 degrees.  Along an   *)
(* axis sine and cosine are taken as exactly -1, 0 or 1.  Along a diagonal *)
(* every length (the distance moved, the distance to an edge, the length   *)
(* of a segment) is counted in units of the square root of 2, in which     *)
(* sine and cosine are exactly -1 or 1 per unit.  A quotient by a zero     *)
(* sine or cosine is the IEEE value the division yields (Infinity, or NaN  *)
(* for 0/0).  The rounding of floating-point arithmetic is not modelled.   *)
(***************************************************************************)
EXTENDS Integers, Sequences, FiniteSets, TLC

\* ------------------------------------------------------------------ bounds
\* Calls (public operations, stopDrawing, startDrawing) the caller makes.
MaxCalls == 3
\* Operations of one scripted sequence in the equivalence scenario.
MaxSeqLen == 3
\* Half of ctx.canvas.width and of ctx.canvas.height.
HalfW == 2
HalfH == 2

\* ------------------------------------------------------- argument domains
Distances == {3}
Degrees == {90}
Angles == {180}
Points == {<<1, HalfH>>}
Widths == {2}
Speeds == {0, 50}

\* The ColorResolvable values a caller passes: a Color instance is its four
\* components (r, g, b, a), a plain array its three (r, g, b).
ColorArgs == {<<0, 0, 255, 1>>, <<255, 0, 0>>}

\* The shapes (Vertex2D[]) a caller passes, named by their index; 1 is
\* BuiltInShapes.Default.  A shape is only handed on to the glyph drawing.
ShapeArgs == {2}

\* CanvasLineCap values, named by their index.
LineCaps == <<"butt", "round", "square">>
CapArgs == {1}

Undefined == <<>>

\* ------------------------------------------------------------------ state
VARIABLES
    _hidden, _wrap, _isPenDown, _preDrawData, _stepByStep, _step, _steps,
    _speed, _interval, _color, _defaultColor, _width, _position, _angle,
    _shape,
    positionFrom,  \* whose object _position refers to: the turtle's own
                   \* ("turtle") or the one its options hold ("options")
    _autoDraw,     \* whether _setSpeed of the later version starts the timer
    canvasWidth,   \* ctx.canvas.width
    canvasHeight,  \* ctx.canvas.height
    canvas,        \* ctx: the marks painted on the canvas
    path,          \* ctx: the current path (segments not yet stroked)
    lineCap,       \* ctx.lineCap
    timers,        \* the interval timers that are armed (setInterval ids)
    stepListener,  \* what the listener registered for 'step' calls, if any
    trace,         \* what the last action did: steps pushed, shifted, events
    calls,         \* history: the calls issued so far, in order
    pending,       \* history: indices in calls of the steps in _steps
    effected,      \* history: indices in calls of the calls that took effect
    dequeued,      \* history: the steps the ticks took from the queue
    enqueued,      \* history: the steps pushed on the queue
    ticks,         \* history: number of ticks that ran nextStep
    ref            \* scenario: the same calls run on an immediate-mode turtle

fields == <<_hidden, _wrap, _isPenDown, _preDrawData, _stepByStep, _step,
            _steps, _speed, _interval, _color, _defaultColor, _width,
            _position, _angle, _shape, positionFrom, _autoDraw, canvasWidth,
            canvasHeight, canvas, path, lineCap, timers>>
history == <<calls, pending, effected, dequeued, enqueued, ticks>>
vars == <<fields, stepListener, trace, history, ref>>

\* The turtle, its context and its timers as one value, which the
\* operations below take and return.
self ==
    [_hidden |-> _hidden, _wrap |-> _wrap, _isPenDown |-> _isPenDown,
     _preDrawData |-> _preDrawData, _stepByStep |-> _stepByStep,
     _step |-> _step, _steps |-> _steps, _speed |-> _speed,
     _interval |-> _interval, _color |-> _color,
     _defaultColor |-> _defaultColor, _width |-> _width,
     _position |-> _position, _angle |-> _angle, _shape |-> _shape,
     positionFrom |-> positionFrom, _autoDraw |-> _autoDraw,
     canvasWidth |-> canvasWidth, canvasHeight |-> canvasHeight,
     canvas |-> canvas, path |-> path, lineCap |-> lineCap,
     timers |-> timers, stepListener |-> stepListener, trace |-> <<>>]

\* ------------------------------------------------------------ steps, events
TurtleStepType ==
    {"Forward", "Backward", "Left", "Right", "SetAngle", "Hide", "Show",
     "PenUp", "PenDown", "PenToggle", "Reset", "Clear", "Goto", "SetColor",
     "SetWidth", "SetShape", "SetSpeed", "SetLineCap"}

TurtleStep(type, args) == [type |-> type, args |-> args]
NoStep == TurtleStep("none", <<>>)

\* The event of the same name as the operation a step type stands for.
EventOf(type) ==
    CASE type = "Forward" -> "forward"
      [] type = "Backward" -> "backward"
      [] type = "Left" -> "left"
      [] type = "Right" -> "right"
      [] type = "SetAngle" -> "setAngle"
      [] type = "Hide" -> "hide"
      [] type = "Show" -> "show"
      [] type = "PenUp" -> "penUp"
      [] type = "PenDown" -> "penDown"
      [] type = "PenToggle" -> "penToggle"
      [] type = "Reset" -> "reset"
      [] type = "Clear" -> "clear"
      [] type = "Goto" -> "goto"
      [] type = "SetColor" -> "setColor"
      [] type = "SetWidth" -> "setWidth"
      [] type = "SetShape" -> "setShape"
      [] type = "SetSpeed" -> "setSpeed"
      [] type = "SetLineCap" -> "setLineCap"
      [] OTHER -> "none"

\* Entries of a trace.
Emitted(name, args) == [kind |-> "emit", name |-> name, args |-> args, step |-> NoStep]
Pushed(step) == [kind |-> "push", name |-> "", args |-> <<>>, step |-> step]
Shifted(step) == [kind |-> "shift", name |-> "", args |-> <<>>, step |-> step]

emit(t, name, args) == [t EXCEPT !.trace = Append(@, Emitted(name, args))]

\* this._steps.push(step)
push(t, step) ==
    [t EXCEPT !._steps = Append(@, step), !.trace = Append(@, Pushed(step))]

\* isInStep without the _step flag.
isInStepModeOnly(t) == ~t._stepByStep

isInStep(t) == ~t._stepByStep \/ t._step

\* ------------------------------------------------------------------ colors
Clamp255(n) == IF n < 0 THEN 0 ELSE IF n > 255 THEN 255 ELSE n

\* convertToColor: a Color instance is returned as it is; the components of
\* an array are taken only where the preset component is nullish (rgb[i] ??=
\* col[i] on rgb = [0, 0, 0]), which it never is; then each is clamped.
convertToColor(col) ==
    IF Len(col) = 4 THEN col
    ELSE LET rgb == <<0, 0, 0>>
         IN  <<Clamp255(rgb[1]), Clamp255(rgb[2]), Clamp255(rgb[3]), 1>>

\* ----------------------------------------------------------------- canvas
Line(x1, y1, x2, y2) == [kind |-> "line", a |-> <<x1, y1, x2, y2>>]
Stroke(seg, t) ==
    [kind |-> "stroke", a |-> seg.a \o <<t._width>> \o t._color]
Glyph(t) ==
    [kind |-> "glyph",
     a |-> <<t._position[1], t._position[2], t._angle, t._shape, t._width>>
           \o t._color]

clearContext(t) == [t EXCEPT !.canvas = {}]

saveImageData(t) == [t EXCEPT !._preDrawData = <<t.canvas>>]

restoreImageData(t) ==
    IF t._preDrawData # Undefined
    THEN [t EXCEPT !.canvas = t._preDrawData[1]]
    ELSE t

drawTurtle(t) ==
    LET t1 == saveImageData(t)
    IN  IF t1._hidden THEN t1
        ELSE [t1 EXCEPT !.canvas = @ \cup {Glyph(t1)}, !.path = {Glyph(t1)}]

beginPath(t) == [t EXCEPT !.path = {}]

\* ctx.moveTo(x1, y1) followed by ctx.lineTo(x2, y2)
lineTo(t, seg) == [t EXCEPT !.path = @ \cup {seg}]

\* ctx.stroke() with the turtle's width and color
stroke(t) ==
    [t EXCEPT !.canvas = @ \cup {IF m.kind = "line" THEN Stroke(m, t)
                                 ELSE [kind |-> "outline", a |-> m.a] :
                                 m \in t.path}]

\* ------------------------------------------------- the private operations
_clear(t) == drawTurtle(clearContext(t))

_hide(t) == drawTurtle(restoreImageData([t EXCEPT !._hidden = TRUE]))

_show(t) == drawTurtle([t EXCEPT !._hidden = FALSE])

_setShape(t, shape) == drawTurtle([t EXCEPT !._shape = shape])

\* clearInterval(id)
clearInterval(t, id) == [t EXCEPT !.timers = @ \ {id}]

\* setInterval(...): arms a new timer and returns its id
NewTimer(t) == CHOOSE id \in 1..(Cardinality(t.timers) + 1) : id \notin t.timers

\* _setSpeed that arms the new timer without clearing the one it holds.
_setSpeedKeepsTimer(t, ms) ==
    LET t1 == [t EXCEPT !._stepByStep = ms > 0, !._speed = <<ms>>]
        id == NewTimer(t1)
    IN  [t1 EXCEPT !.timers = @ \cup {id}, !._interval = <<id>>]

\* _setSpeed that also empties the queue.
_setSpeedDropsSteps(t, ms) ==
    LET t1 == [t EXCEPT !._stepByStep = ms > 0, !._speed = <<ms>>,
                        !._steps = <<>>]
        t2 == IF t1._interval # Undefined
              THEN clearInterval(t1, t1._interval[1])
              ELSE t1
        id == NewTimer(t2)
    IN  [t2 EXCEPT !.timers = @ \cup {id}, !._interval = <<id>>]

_setSpeed(t, ms) ==
    LET t1 == [t EXCEPT !._stepByStep = ms > 0, !._speed = <<ms>>]
        t2 == IF t1._interval # Undefined
              THEN clearInterval(t1, t1._interval[1])
              ELSE t1
        id == NewTimer(t2)
    IN  [t2 EXCEPT !.timers = @ \cup {id}, !._interval = <<id>>]

_penUp(t) == [t EXCEPT !._isPenDown = FALSE]

_penDown(t) == [t EXCEPT !._isPenDown = TRUE]

_penToggle(t) == [t EXCEPT !._isPenDown = ~t._isPenDown]

_setColor(t, color) ==
    drawTurtle(restoreImageData([t EXCEPT !._color = convertToColor(color)]))

_setWidth(t, size) ==
    drawTurtle(restoreImageData([t EXCEPT !._width = size]))

_setLineCap(t, cap) == [t EXCEPT !.lineCap = LineCaps[cap]]

_setAngle(t, degrees) ==
    drawTurtle(restoreImageData([t EXCEPT !._angle = degrees]))

_left(t, degrees) ==
    drawTurtle(restoreImageData([t EXCEPT !._angle = @ - degrees]))

_right(t, degrees) ==
    drawTurtle(restoreImageData([t EXCEPT !._angle = @ - degrees]))

\* _goto that brings a point outside the canvas back in by one canvas size
\* when wrapping is enabled.
_gotoWrapping(t, x, y) ==
    LET wx == IF t._wrap /\ x > t.canvasWidth \div 2 THEN x - t.canvasWidth
              ELSE IF t._wrap /\ 0 - x > t.canvasWidth \div 2
              THEN x + t.canvasWidth ELSE x
        wy == IF t._wrap /\ y > t.canvasHeight \div 2 THEN y - t.canvasHeight
              ELSE IF t._wrap /\ 0 - y > t.canvasHeight \div 2
              THEN y + t.canvasHeight ELSE y
    IN  drawTurtle(restoreImageData([t EXCEPT !._position = <<wx, wy>>]))

_goto(t, x, y) ==
    drawTurtle(restoreImageData([t EXCEPT !._position = <<x, y>>]))

\* ------------------------------------------------------ the public setters
\* Each public operation runs now when isInStep, and pushes a step otherwise.
clear(t) ==
    IF isInStep(t) THEN emit(_clear(t), "clear", <<>>)
    ELSE push(t, TurtleStep("Clear", <<>>))

hide(t) ==
    IF isInStep(t) THEN emit(_hide(t), "hide", <<>>)
    ELSE push(t, TurtleStep("Hide", <<>>))

show(t) ==
    IF isInStep(t) THEN emit(_show(t), "show", <<>>)
    ELSE push(t, TurtleStep("Show", <<>>))

setShape(t, shape) ==
    IF isInStep(t) THEN emit(_setShape(t, shape), "setShape", <<shape>>)
    ELSE push(t, TurtleStep("SetShape", <<shape>>))

setSpeed(t, ms) ==
    IF isInStep(t) THEN emit(_setSpeed(t, ms), "setSpeed", <<ms>>)
    ELSE push(t, TurtleStep("SetSpeed", <<ms>>))

penUp(t) ==
    IF isInStep(t) THEN emit(_penUp(t), "penUp", <<>>)
    ELSE push(t, TurtleStep("PenUp", <<>>))

penDown(t) ==
    IF isInStep(t) THEN emit(_penDown(t), "penDown", <<>>)
    ELSE push(t, TurtleStep("PenDown", <<>>))

penToggle(t) ==
    IF isInStep(t)
    THEN LET t1 == _penToggle(t)
         IN  emit(t1, "penToggle", <<IF t1._isPenDown THEN 1 ELSE 0>>)
    ELSE push(t, TurtleStep("PenDown", <<>>))

setColor(t, color) ==
    IF isInStep(t)
    THEN LET t1 == _setColor(t, color) IN emit(t1, "setColor", t1._color)
    ELSE push(t, TurtleStep("SetColor", color))

setWidth(t, size) ==
    IF isInStep(t) THEN emit(_setWidth(t, size), "setWidth", <<size>>)
    ELSE push(t, TurtleStep("SetWidth", <<size>>))

setLineCap(t, cap) ==
    IF isInStep(t) THEN emit(_setLineCap(t, cap), "setLineCap", <<cap>>)
    ELSE push(t, TurtleStep("SetLineCap", <<cap>>))

\* setAngle that also turns the turtle when it pushes the step.
setAngleEager(t, degrees) ==
    IF isInStep(t) THEN emit(_setAngle(t, degrees), "setAngle", <<degrees>>)
    ELSE push(_setAngle(t, degrees), TurtleStep("SetAngle", <<degrees>>))

setAngle(t, degrees) ==
    IF isInStep(t) THEN emit(_setAngle(t, degrees), "setAngle", <<degrees>>)
    ELSE push(t, TurtleStep("SetAngle", <<degrees>>))

left(t, degrees) ==
    IF isInStep(t) THEN emit(_left(t, degrees), "left", <<degrees>>)
    ELSE push(t, TurtleStep("Left", <<degrees>>))

right(t, degrees) ==
    IF isInStep(t) THEN emit(_right(t, degrees), "right", <<degrees>>)
    ELSE push(t, TurtleStep("Right", <<degrees>>))

\* goto that puts the step on the queue whatever the mode.
gotoQueued(t, x, y) == push(t, TurtleStep("Goto", <<x, y>>))

goto(t, x, y) ==
    IF isInStep(t) THEN emit(_goto(t, x, y), "goto", <<x, y>>)
    ELSE push(t, TurtleStep("Goto", <<x, y>>))

\* ------------------------------------------------------- the straight line
\* Math.sin and Math.cos of a heading in degrees (a multiple of 45), per
\* unit of length along the heading.
sinDeg(a) ==
    CASE a % 360 \in {45, 90, 135} -> 1
      [] a % 360 \in {225, 270, 315} -> 0 - 1
      [] OTHER -> 0
cosDeg(a) ==
    CASE a % 360 \in {315, 0, 45} -> 1
      [] a % 360 \in {135, 180, 225} -> 0 - 1
      [] OTHER -> 0

Abs(n) == IF n < 0 THEN 0 - n ELSE n

\* Math.abs(n / d) for d in {-1, 0, 1}: a number, Infinity, or NaN for 0/0.
AbsQuotient(n, d) ==
    IF d # 0 THEN [k |-> "num", v |-> Abs(n)]
    ELSE IF n # 0 THEN [k |-> "inf", v |-> 0]
    ELSE [k |-> "nan", v |-> 0]

\* a < b in the place of a <= b.
LessStrict(a, b) ==
    /\ a.k # "nan"
    /\ b.k # "nan"
    /\ \/ a.k = "num" /\ b.k = "inf"
       \/ a.k = "num" /\ b.k = "num" /\ a.v < b.v

\* a <= b on such values: false when either is NaN.
LessEq(a, b) ==
    /\ a.k # "nan"
    /\ b.k # "nan"
    /\ \/ b.k = "inf"
       \/ a.k = "num" /\ b.k = "num" /\ a.v <= b.v

\* The loop of _doStraightLine on s = (x, y, newX, newY, distance, segs):
\* segs are the (moveTo, lineTo) pairs issued, in order.
RECURSIVE wrapLoop(_, _)
wrapLoop(t, s) ==
    IF ~(s.distance > 0) THEN s
    ELSE
    LET sinAngle == sinDeg(t._angle)
        cosAngle == cosDeg(t._angle)
        w == t.canvasWidth \div 2
        h == t.canvasHeight \div 2
        distanceToEdgeX ==
            AbsQuotient(IF s.newX > s.x THEN w - s.x ELSE w + s.x, sinAngle)
        distanceToEdgeY ==
            AbsQuotient(IF s.newY > s.y THEN h - s.y ELSE h + s.y, cosAngle)
        seg == Line(s.x, s.y, s.newX, s.newY)
    IN  IF /\ t._wrap
           /\ Abs(s.newX) > w
           /\ LessEq(distanceToEdgeX, distanceToEdgeY)
        THEN wrapLoop(t,
                 [x |-> IF s.newX > 0 THEN 0 - w ELSE w,
                  y |-> s.y + cosAngle * distanceToEdgeX.v,
                  newX |-> s.newX - (IF s.newX > 0 THEN w * 2 ELSE 0 - (w * 2)),
                  newY |-> s.newY,
                  distance |-> s.distance - distanceToEdgeX.v,
                  segs |-> Append(s.segs, seg)])
        ELSE IF /\ t._wrap
                /\ Abs(s.newY) > h
                /\ LessEq(distanceToEdgeY, distanceToEdgeX)
        THEN wrapLoop(t,
                 [x |-> s.x + sinAngle * distanceToEdgeY.v,
                  y |-> IF s.newY > 0 THEN 0 - h ELSE h,
                  newX |-> s.newX,
                  newY |-> s.newY - (IF s.newY > 0 THEN h * 2 ELSE 0 - (h * 2)),
                  distance |-> s.distance - distanceToEdgeY.v,
                  segs |-> Append(s.segs, seg)])
        ELSE [s EXCEPT !.distance = 0, !.segs = Append(s.segs, seg)]

\* The loop's result from the turtle's position along its heading.
wrapLine(t, distance) ==
    wrapLoop(t,
        [x |-> t._position[1], y |-> t._position[2],
         newX |-> t._position[1] + sinDeg(t._angle) * distance,
         newY |-> t._position[2] + cosDeg(t._angle) * distance,
         distance |-> distance, segs |-> <<>>])

\* _doStraightLine that strokes the path whatever the pen's state.
_doStraightLineStroking(t, distance) ==
    LET t1 == restoreImageData(t)
        t2 == IF t1._isPenDown THEN beginPath(t1) ELSE t1
        r == wrapLine(t2, distance)
        t3 == [t2 EXCEPT !.path = @ \cup {r.segs[i] : i \in DOMAIN r.segs}]
    IN  goto(saveImageData(stroke(t3)), r.newX, r.newY)

_doStraightLine(t, distance) ==
    LET t1 == restoreImageData(t)
        t2 == IF t1._isPenDown THEN beginPath(t1) ELSE t1
        r == wrapLine(t2, distance)
        t3 == [t2 EXCEPT !.path = @ \cup {r.segs[i] : i \in DOMAIN r.segs}]
        t4 == IF t3._isPenDown THEN stroke(t3) ELSE t3
    IN  goto(saveImageData(t4), r.newX, r.newY)

_forward(t, distance) == _doStraightLine(t, distance)

\* forward that runs at once whatever the mode.
forwardAtOnce(t, distance) ==
    emit(_forward(t, distance), "forward", <<distance>>)

forward(t, distance) ==
    IF isInStep(t) THEN emit(_forward(t, distance), "forward", <<distance>>)
    ELSE push(t, TurtleStep("Forward", <<distance>>))

\* _backward that passes the distance on as it is.
_backwardUnsigned(t, distance) == _doStraightLine(t, distance)

_backward(t, distance) == _doStraightLine(t, 0 - distance)

backward(t, distance) ==
    IF isInStep(t) THEN emit(_backward(t, distance), "backward", <<distance>>)
    ELSE push(t, TurtleStep("Backward", <<distance>>))

\* ------------------------------------------------------------------ reset
\* _reset that leaves the pen as it is.
_resetKeepsPen(t) ==
    LET t1 == [t EXCEPT !._hidden = FALSE, !._stepByStep = FALSE]
    IN  clear(goto(setAngle(setColor(setWidth(t1, 1), t1._defaultColor), 0),
                   0, 0))

\* _reset that leaves the mode as it is and ends the replay before it calls
\* the setters.
_resetDeferred(t) ==
    LET t1 == [t EXCEPT !._hidden = FALSE, !._isPenDown = TRUE,
                        !._step = FALSE]
    IN  clear(goto(setAngle(setColor(setWidth(t1, 1), t1._defaultColor), 0),
                   0, 0))

_reset(t) ==
    LET t1 == [t EXCEPT !._hidden = FALSE, !._isPenDown = TRUE,
                        !._stepByStep = FALSE]
    IN  clear(goto(setAngle(setColor(setWidth(t1, 1), t1._defaultColor), 0),
                   0, 0))

reset(t) ==
    IF isInStep(t) THEN emit(_reset(t), "reset", <<>>)
    ELSE push(t, TurtleStep("Reset", <<>>))

\* ------------------------------------------- stopDrawing and startDrawing
\* stopDrawing that also empties the queue.
stopDrawingDropsSteps(t) ==
    IF t._interval = Undefined THEN t
    ELSE [clearInterval(t, t._interval[1]) EXCEPT !._interval = Undefined,
                                                  !._steps = <<>>]

stopDrawing(t) ==
    IF t._interval = Undefined THEN t
    ELSE [clearInterval(t, t._interval[1]) EXCEPT !._interval = Undefined]

\* startDrawing that arms a timer also when the turtle holds one.
startDrawingAlways(t) ==
    LET id == NewTimer(t)
    IN  [t EXCEPT !.timers = @ \cup {id}, !._interval = <<id>>]

startDrawing(t) ==
    IF t._interval # Undefined THEN t
    ELSE LET id == NewTimer(t)
         IN  [t EXCEPT !.timers = @ \cup {id}, !._interval = <<id>>]

\* ------------------------------------------------------------------ grid
\* The Color convertToColor('grey') yields through the table of HTML color
\* names.
Grey == <<128, 128, 128, 1>>

\* The calls the loop of drawGrid makes from i on: a horizontal and a
\* vertical line per separation, on a canvas of width w and height h.
RECURSIVE gridLines(_, _, _, _)
gridLines(i, separations, w, h) ==
    IF ~(i < separations) THEN <<>>
    ELSE <<TurtleStep("SetAngle", <<90>>),
           TurtleStep("Goto", <<0 - (w \div 2),
                                h - (h \div separations) * i - (h \div 2)>>),
           TurtleStep("Forward", <<w>>),
           TurtleStep("SetAngle", <<180>>),
           TurtleStep("Goto", <<w - (w \div separations) * i - (w \div 2),
                                h \div 2>>),
           TurtleStep("Forward", <<h>>)>>
         \o gridLines(i + 1, separations, w, h)

\* One call drawGrid makes of a public operation.
gridCall(t, c) ==
    CASE c.type = "SetAngle" -> setAngle(t, c.args[1])
      [] c.type = "Goto" -> goto(t, c.args[1], c.args[2])
      [] c.type = "Forward" -> forward(t, c.args[1])
      [] c.type = "SetColor" -> setColor(t, c.args)
      [] c.type = "SetWidth" -> setWidth(t, c.args[1])

\* The calls cs made one after the other.
RECURSIVE gridCalls(_, _)
gridCalls(t, cs) ==
    IF cs = <<>> THEN t
    ELSE gridCalls(CHOOSE r \in {gridCall(x, Head(cs)) : x \in {t}} : TRUE,
                   Tail(cs))

drawGrid(t, separations) ==
    LET n == IF separations < 2 THEN 2 ELSE separations
        cs == <<TurtleStep("SetColor", Grey), TurtleStep("SetWidth", <<2>>)>>
              \o gridLines(1, n, t.canvasWidth, t.canvasHeight)
              \o <<TurtleStep("SetAngle", <<t._angle>>),
                    TurtleStep("SetColor", t._color),
                    TurtleStep("SetWidth", <<t._width>>),
                    TurtleStep("Goto", t._position)>>
    IN  [gridCalls([t EXCEPT !._step = TRUE], cs) EXCEPT !._step = FALSE]

\* --------------------------------------------------------- calls and steps
\* A call of a public operation, written like the step that stands for it.
Invoke(t, c) ==
    CASE c.type = "Forward" -> forward(t, c.args[1])
      [] c.type = "Backward" -> backward(t, c.args[1])
      [] c.type = "Left" -> left(t, c.args[1])
      [] c.type = "Right" -> right(t, c.args[1])
      [] c.type = "SetAngle" -> setAngle(t, c.args[1])
      [] c.type = "Hide" -> hide(t)
      [] c.type = "Show" -> show(t)
      [] c.type = "PenUp" -> penUp(t)
      [] c.type = "PenDown" -> penDown(t)
      [] c.type = "PenToggle" -> penToggle(t)
      [] c.type = "Reset" -> reset(t)
      [] c.type = "Clear" -> clear(t)
      [] c.type = "Goto" -> goto(t, c.args[1], c.args[2])
      [] c.type = "SetColor" -> setColor(t, c.args)
      [] c.type = "SetWidth" -> setWidth(t, c.args[1])
      [] c.type = "SetShape" -> setShape(t, c.args[1])
      [] c.type = "SetSpeed" -> setSpeed(t, c.args[1])
      [] c.type = "SetLineCap" -> setLineCap(t, c.args[1])
      [] c.type = "DrawGrid" -> drawGrid(t, c.args[1])
      [] OTHER -> t

\* this.emit('step', step): the event, then the listener registered for it,
\* which calls one public operation (or none is registered).
emitStep(t, step) ==
    LET t1 == [t EXCEPT !.trace =
                   Append(@, [kind |-> "emit", name |-> "step",
                              args |-> <<>>, step |-> step])]
    IN  IF t1.stepListener = NoStep THEN t1 ELSE Invoke(t1, t1.stepListener)

\* The chain of tests on step.type that follows the 'step' event in doStep.
dispatchStep(t, step) ==
    CASE step.type = "Goto" -> goto(t, step.args[1], step.args[2])
      [] step.type = "SetAngle" -> setAngle(t, step.args[1])
      [] step.type = "Forward" -> forward(t, step.args[1])
      [] step.type = "Left" -> left(t, step.args[1])
      [] step.type = "Right" -> right(t, step.args[1])
      [] step.type = "Hide" -> hide(t)
      [] step.type = "Show" -> show(t)
      [] step.type = "PenDown" -> penDown(t)
      [] step.type = "PenUp" -> penUp(t)
      [] step.type = "Reset" -> reset(t)
      [] step.type = "Clear" -> clear(t)
      [] step.type = "SetColor" -> setColor(t, step.args)
      [] step.type = "SetWidth" -> setWidth(t, step.args[1])
      [] step.type = "SetSpeed" -> setSpeed(t, step.args[1])
      [] step.type = "SetShape" -> setShape(t, step.args[1])
      [] step.type = "SetLineCap" -> setLineCap(t, step.args[1])
      [] OTHER -> t

\* doStep that emits 'step' after the operation of the step.
doStepEventLast(t, step) == emitStep(dispatchStep(t, step), step)

doStep(t, step) == dispatchStep(emitStep(t, step), step)

\* A shift that takes the last step of the queue (pop) instead of the first.
shiftStepLast(t) ==
    [t EXCEPT !._steps = SubSeq(@, 1, Len(@) - 1), !._step = TRUE,
              !.trace = Append(@, Shifted(t._steps[Len(t._steps)]))]

\* const step = this._steps.shift(), and this._step = true when there is one
shiftStep(t) ==
    [t EXCEPT !._steps = Tail(@), !._step = TRUE,
              !.trace = Append(@, Shifted(Head(t._steps)))]

\* The step a trace took from the queue last.
Taken(t) == t.trace[Len(t.trace)].step

\* Whether the listener registered for 'step' throws.
Throws(t) == t.stepListener.type = "Throw"

\* When the listener throws, the exception leaves doStep and nextStep at
\* the emit: neither the operation nor this._step = false is reached.
nextStep(t) ==
    IF t._steps # <<>>
    THEN LET t1 == shiftStep(t)
         IN  IF Throws(t1) THEN emitStep(t1, Taken(t1))
             ELSE [doStep(t1, Taken(t1)) EXCEPT !._step = FALSE]
    ELSE IF t._interval # Undefined
    THEN [clearInterval(t, t._interval[1]) EXCEPT !._interval = Undefined]
    ELSE t

\* ------------------------------------------------------------ construction
\* new Turtle(ctx) with no options, on an empty canvas.
Fresh ==
    [_hidden |-> FALSE, _wrap |-> TRUE, _isPenDown |-> TRUE,
     _preDrawData |-> Undefined, _stepByStep |-> FALSE, _step |-> FALSE,
     _steps |-> <<>>, _speed |-> Undefined, _interval |-> Undefined,
     _color |-> <<255, 0, 255, 1>>, _defaultColor |-> <<255, 0, 255, 1>>,
     _width |-> 1, _position |-> <<0, 0>>, _angle |-> 0, _shape |-> 1,
     positionFrom |-> "turtle", _autoDraw |-> TRUE,
     canvasWidth |-> 2 * HalfW, canvasHeight |-> 2 * HalfH,
     canvas |-> {}, path |-> {}, lineCap |-> "round", timers |-> {},
     stepListener |-> NoStep, trace |-> <<>>]

Holds(t) ==
    /\ _hidden = t._hidden
    /\ _wrap = t._wrap
    /\ _isPenDown = t._isPenDown
    /\ _preDrawData = t._preDrawData
    /\ _stepByStep = t._stepByStep
    /\ _step = t._step
    /\ _steps = t._steps
    /\ _speed = t._speed
    /\ _interval = t._interval
    /\ _color = t._color
    /\ _defaultColor = t._defaultColor
    /\ _width = t._width
    /\ _position = t._position
    /\ _angle = t._angle
    /\ _shape = t._shape
    /\ positionFrom = t.positionFrom
    /\ _autoDraw = t._autoDraw
    /\ canvasWidth = t.canvasWidth
    /\ canvasHeight = t.canvasHeight
    /\ canvas = t.canvas
    /\ path = t.path
    /\ lineCap = t.lineCap
    /\ timers = t.timers
    /\ stepListener = t.stepListener
    /\ trace = t.trace

Init ==
    /\ Holds(Fresh)
    /\ calls = <<>>
    /\ pending = <<>>
    /\ effected = {}
    /\ dequeued = <<>>
    /\ enqueued = <<>>
    /\ ticks = 0
    /\ ref = Fresh

\* The turtle becomes t.
Becomes(t) ==
    /\ _hidden' = t._hidden
    /\ _wrap' = t._wrap
    /\ _isPenDown' = t._isPenDown
    /\ _preDrawData' = t._preDrawData
    /\ _stepByStep' = t._stepByStep
    /\ _step' = t._step
    /\ _steps' = t._steps
    /\ _speed' = t._speed
    /\ _interval' = t._interval
    /\ _color' = t._color
    /\ _defaultColor' = t._defaultColor
    /\ _width' = t._width
    /\ _position' = t._position
    /\ _angle' = t._angle
    /\ _shape' = t._shape
    /\ positionFrom' = t.positionFrom
    /\ _autoDraw' = t._autoDraw
    /\ canvasWidth' = t.canvasWidth
    /\ canvasHeight' = t.canvasHeight
    /\ canvas' = t.canvas
    /\ path' = t.path
    /\ lineCap' = t.lineCap
    /\ timers' = t.timers
    /\ stepListener' = t.stepListener
    /\ trace' = t.trace

\* The steps a trace pushed, and those it shifted, in order.
RECURSIVE StepsOf(_, _)
StepsOf(tr, kind) ==
    IF tr = <<>> THEN <<>>
    ELSE (IF Head(tr).kind = kind THEN <<Head(tr).step>> ELSE <<>>)
         \o StepsOf(Tail(tr), kind)

\* Whether a trace holds the event of the operation a call names.
TookEffect(tr, type) ==
    \E i \in DOMAIN tr : tr[i].kind = "emit" /\ tr[i].name = EventOf(type)

\* ---------------------------------------------------------------- callers
\* The calls of the 18 public operations a caller makes.
OpCalls ==
    {TurtleStep("Forward", <<d>>) : d \in Distances}
    \cup {TurtleStep("Backward", <<d>>) : d \in Distances}
    \cup {TurtleStep("Left", <<a>>) : a \in Degrees}
    \cup {TurtleStep("Right", <<a>>) : a \in Degrees}
    \cup {TurtleStep("SetAngle", <<a>>) : a \in Angles}
    \cup {TurtleStep(type, <<>>) :
             type \in {"Hide", "Show", "PenUp", "PenDown", "PenToggle",
                       "Reset", "Clear"}}
    \cup {TurtleStep("Goto", p) : p \in Points}
    \cup {TurtleStep("SetColor", c) : c \in ColorArgs}
    \cup {TurtleStep("SetWidth", <<n>>) : n \in Widths}
    \cup {TurtleStep("SetShape", <<sh>>) : sh \in ShapeArgs}
    \cup {TurtleStep("SetSpeed", <<ms>>) : ms \in Speeds}
    \cup {TurtleStep("SetLineCap", <<cap>>) : cap \in CapArgs}

\* What a listener registered for 'step' may call.
ListenerCalls == {TurtleStep("Reset", <<>>)}

CallerCalls == {i \in DOMAIN calls : calls[i].by = "caller"}

\* A call as the history keeps it: who made it, and whether step-by-step
\* mode was active and a step was being replayed when it was made.
Issued(c, by, t) ==
    [call |-> c, by |-> by, active |-> t._stepByStep, inStep |-> t._step]

\* The history after the caller's call c on the turtle t left the trace tr;
\* done tells whether the call took effect.
Record(c, t, tr, done) ==
    LET n == Len(calls) + 1
        pushes == StepsOf(tr, "push")
    IN  /\ calls' = Append(calls, Issued(c, "caller", t))
        /\ pending' = pending \o [i \in 1..Len(pushes) |-> n]
        /\ effected' = IF done THEN effected \cup {n} ELSE effected
        /\ enqueued' = enqueued \o pushes
        /\ dequeued' = dequeued \o StepsOf(tr, "shift")
        /\ UNCHANGED ticks

\* The caller calls a public operation, as one of at most limit calls.
Issue(c, limit) ==
    /\ Cardinality(CallerCalls) < limit
    /\ LET r == Invoke(self, c)
       IN  Becomes(r) /\ Record(c, self, r.trace, TookEffect(r.trace, c.type))

Call(c) == Issue(c, MaxCalls) /\ UNCHANGED ref

\* The caller calls stopDrawing().
Stop(limit) ==
    /\ Cardinality(CallerCalls) < limit
    /\ Becomes(stopDrawing(self))
    /\ Record(TurtleStep("stopDrawing", <<>>), self, <<>>, TRUE)
    /\ UNCHANGED ref

StopDrawing == Stop(MaxCalls)

\* The caller calls startDrawing().
Start(limit) ==
    /\ Cardinality(CallerCalls) < limit
    /\ Becomes(startDrawing(self))
    /\ Record(TurtleStep("startDrawing", <<>>), self, <<>>, TRUE)
    /\ UNCHANGED ref

StartDrawing == Start(MaxCalls)

\* The caller registers a listener for 'step', before any other call:
\* on('step', ...).
On(c) ==
    /\ stepListener = NoStep
    /\ calls = <<>>
    /\ Becomes([self EXCEPT !.stepListener = c])
    /\ UNCHANGED <<history, ref>>

\* An armed timer fires: nextStep().
Tick ==
    /\ timers # {}
    /\ LET r == nextStep(self)
           busy == _steps # <<>>
           t1 == shiftStep(self)
           t2 == emitStep(t1, Taken(t1))
           t3 == IF Throws(t2) THEN t2 ELSE dispatchStep(t2, Taken(t1))
           heard == busy /\ stepListener # NoStep
           n == Len(calls) + 1
           pushes == StepsOf(r.trace, "push")
       IN  /\ Becomes(r)
           /\ calls' = IF heard
                       THEN Append(calls, Issued(stepListener, "listener", t1))
                       ELSE calls
           /\ pending' = (IF busy THEN Tail(pending) ELSE pending)
                         \o [i \in 1..Len(pushes) |-> n]
           /\ effected' =
                  effected
                  \cup (IF heard /\ TookEffect(SubSeq(t2.trace, 3, Len(t2.trace)),
                                               stepListener.type)
                        THEN {n} ELSE {})
                  \cup (IF busy /\ TookEffect(SubSeq(t3.trace, Len(t2.trace) + 1,
                                                     Len(t3.trace)),
                                              calls[Head(pending)].call.type)
                        THEN {Head(pending)} ELSE {})
           /\ enqueued' = enqueued \o pushes
           /\ dequeued' = dequeued \o StepsOf(r.trace, "shift")
           /\ ticks' = ticks + 1
    /\ UNCHANGED ref

Next ==
    \/ \E c \in OpCalls : Call(c)
    \/ StopDrawing
    \/ StartDrawing
    \/ \E c \in ListenerCalls : On(c)
    \/ Tick

Spec == Init /\ [][Next]_vars

\* ------------------------------------------- the equivalence scenario
\* A fresh turtle is put in step-by-step mode by setSpeed(50); then a
\* sequence of at most MaxSeqLen operations is issued on it at once (before
\* any tick), each of which is also run on ref, a fresh turtle left in
\* immediate mode; then ticks drain the queue.
SeqCalls ==
    {c \in OpCalls : c.type \notin {"Reset", "SetSpeed"}}

EqStart ==
    /\ calls = <<>>
    /\ Issue(TurtleStep("SetSpeed", <<50>>), 1)
    /\ UNCHANGED ref

EqCall(c) ==
    /\ calls # <<>>
    /\ ticks = 0
    /\ Issue(c, 1 + MaxSeqLen)
    /\ ref' = Invoke(ref, c)

NextEq ==
    \/ EqStart
    \/ \E c \in SeqCalls : EqCall(c)
    \/ Tick

SpecEq == Init /\ [][NextEq]_vars

\* ------------------------------------------------- the stopping scenario
\* A caller that sets the speed, moves and turns, and stops and starts the
\* drawing, in at most MaxStopCalls calls.
MaxStopCalls == 4

StopCalls ==
    {TurtleStep("SetSpeed", <<ms>>) : ms \in Speeds}
    \cup {TurtleStep("Forward", <<d>>) : d \in Distances}
    \cup {TurtleStep("Left", <<a>>) : a \in Degrees}

StopCall(c) == Issue(c, MaxStopCalls) /\ UNCHANGED ref

NextStop ==
    \/ \E c \in StopCalls : StopCall(c)
    \/ Stop(MaxStopCalls)
    \/ Start(MaxStopCalls)
    \/ Tick

SpecStop == Init /\ [][NextStop]_vars

\* ================================================================= claims
\* The fields of the turtle other than its queue.
others ==
    <<_hidden, _wrap, _isPenDown, _preDrawData, _stepByStep, _step, _speed,
      _interval, _color, _defaultColor, _width, _position, _angle, _shape,
      positionFrom, _autoDraw, canvasWidth, canvasHeight, canvas, path,
      lineCap, timers>>

\* The turtle state the equivalence is about.
TurtleState(t) ==
    <<t._position, t._angle, t._isPenDown, t._hidden, t._color, t._width,
      t._shape>>

\* The last call of the history.
LastCall == calls[Len(calls)]

\* The events of a trace.
Events(tr) == {i \in DOMAIN tr : tr[i].kind = "emit"}

\* C1 (as claimed): once a sequence of operations issued in step-by-step mode
\* has been drained from the queue, the turtle's position, angle, pen,
\* hidden flag, color, width and shape are those the same sequence gives in
\* immediate mode.
C1_DrainedEqualsImmediate ==
    (calls # <<>> /\ _steps = <<>>) => TurtleState(self) = TurtleState(ref)

C3_CallOrder ==
    \A n \in effected :
        (calls[n].active /\ calls[n].call.type \in TurtleStepType) =>
            \A m \in 1..(n - 1) :
                calls[m].call.type \in TurtleStepType => m \in effected

\* The scenario of C4: setSpeed(50), then exactly three forward calls.
ThreeForwards ==
    /\ Len(calls) = 4
    /\ calls[1].call = TurtleStep("SetSpeed", <<50>>)
    /\ \A i \in 2..4 : calls[i].call.type = "Forward"

\* C4: after setSpeed(50) and three forward calls on a fresh turtle, before
\* any tick the queue holds three steps and nothing but setSpeed has taken
\* effect; after three ticks the queue is empty and position, angle and pen
\* are those of the three forward calls in immediate mode.
C4_ThreeForwardsQueued ==
    ThreeForwards =>
        /\ ticks = 0 =>
               /\ Len(_steps) = 3
               /\ _position = Fresh._position
               /\ effected = {1}
        /\ ticks = 3 =>
               /\ Len(_steps) = 0
               /\ _position = ref._position
               /\ _angle = ref._angle
               /\ _isPenDown = ref._isPenDown

\* The three forward steps have been replayed by three ticks.
C4_Witness == ThreeForwards /\ ticks = 3 /\ _position # Fresh._position

\* C5: a caller's call of a public operation made in step-by-step mode while
\* no step is replayed appends one step to the queue, changes no other field
\* of the turtle, of its canvas or of its timers, and emits no event.
C5_EnqueueOnly ==
    [][(/\ Len(calls') = Len(calls) + 1
        /\ calls'[Len(calls')].by = "caller"
        /\ calls'[Len(calls')].call.type \in TurtleStepType
        /\ _stepByStep
        /\ ~_step) =>
           /\ Len(_steps') = Len(_steps) + 1
           /\ SubSeq(_steps', 1, Len(_steps)) = _steps
           /\ UNCHANGED others
           /\ Events(trace') = {}]_vars

\* A setAngle call has just been pushed on the queue.
C5_Witness ==
    /\ Len(trace) = 1
    /\ trace[1].kind = "push"
    /\ LastCall.call.type = "SetAngle"
    /\ _angle = Fresh._angle

\* C6 (as claimed): the step pushed for a call has the tag of the operation
\* called and the arguments of the call.
C6_StepDescribesCall ==
    (trace # <<>> /\ trace[Len(trace)].kind = "push") =>
        /\ trace[Len(trace)].step.type = LastCall.call.type
        /\ trace[Len(trace)].step.args = LastCall.call.args

\* C7 (as claimed): a tick that takes a step from the queue leaves _step
\* false and has run the operation the step's tag names (which emits the
\* operation's event).
C7_ReplayRunsOperation ==
    (stepListener = NoStep /\ trace # <<>> /\ trace[1].kind = "shift") =>
        /\ ~_step
        /\ TookEffect(SubSeq(trace, 3, Len(trace)), trace[1].step.type)

C9_IdleTeardown ==
    [][(ticks' = ticks + 1 /\ _steps = <<>>) =>
           /\ _interval' = Undefined
           /\ timers' = {}
           /\ trace' = <<>>
           /\ UNCHANGED <<_hidden, _wrap, _isPenDown, _preDrawData,
                          _stepByStep, _step, _steps, _speed, _color,
                          _defaultColor, _width, _position, _angle, _shape,
                          canvas, path, lineCap>>]_vars

\* A tick found the queue empty after the queue had been drained, and the
\* timer is gone.
C9_Witness ==
    /\ ticks > Len(dequeued)
    /\ dequeued # <<>>
    /\ _steps = <<>>
    /\ _interval = Undefined
    /\ timers = {}

\* Whether the trace holds the event of a setSpeed that took effect.
SpeedSet(tr) == \E i \in Events(tr) : tr[i].name = "setSpeed"

LastEvent ==
    IF trace # <<>> /\ trace[Len(trace)].kind = "emit"
    THEN trace[Len(trace)]
    ELSE Emitted("none", <<>>)

\* C11 (as claimed): once a setSpeed(ms) with ms <= 0 has taken effect the
\* turtle is in immediate mode and no timer is armed, and a timer is armed
\* only while step-by-step mode is active.
C11_NoTimerWhenImmediate ==
    /\ (LastEvent.name = "setSpeed" /\ LastEvent.args[1] <= 0) =>
           /\ ~_stepByStep
           /\ _interval = Undefined
           /\ timers = {}
    /\ timers # {} => _stepByStep

\* ---------------------------------------------------- the timer scenario
\* A caller that sets the speed, moves, and stops and starts the drawing,
\* in at most MaxTimerCalls calls, after it may have registered a listener
\* for 'step' that sets the speed itself.
MaxTimerCalls == 4

TimerCalls ==
    {TurtleStep("SetSpeed", <<ms>>) : ms \in Speeds}
    \cup {TurtleStep("Forward", <<d>>) : d \in Distances}

TimerListenerCalls == {TurtleStep("SetSpeed", <<ms>>) : ms \in Speeds}

TimerCall(c) == Issue(c, MaxTimerCalls) /\ UNCHANGED ref

NextTimer ==
    \/ \E c \in TimerCalls : TimerCall(c)
    \/ Stop(MaxTimerCalls)
    \/ Start(MaxTimerCalls)
    \/ \E c \in TimerListenerCalls : On(c)
    \/ Tick

SpecTimer == Init /\ [][NextTimer]_vars

\* C12: in every reachable state at most one timer is armed, and it is the
\* one the turtle holds in _interval: a setSpeed that takes effect (called
\* directly, replayed by a tick, or called from a listener) has cleared the
\* timer held before it arms the new one.
C12_OneTimer ==
    /\ Cardinality(timers) <= 1
    /\ timers = (IF _interval = Undefined THEN {} ELSE {_interval[1]})

\* A tick of the armed timer has replayed a setSpeed step, on a turtle whose
\* 'step' listener sets the speed too, and a timer is armed.
C12_Witness ==
    /\ stepListener # NoStep
    /\ trace # <<>>
    /\ trace[1].kind = "shift"
    /\ trace[1].step.type = "SetSpeed"
    /\ Cardinality({i \in Events(trace) : trace[i].name = "setSpeed"}) = 2
    /\ timers # {}

\* C13 (as claimed): a left(a) that takes effect lowers the heading by a, a
\* right(a) that takes effect raises it by a, neither normalizes it.
C13_LeftRightOpposite ==
    [][(stepListener = NoStep /\ trace' # <<>>) =>
           LET e == trace'[Len(trace')]
           IN  /\ (e.kind = "emit" /\ e.name = "left") =>
                      _angle' = _angle - e.args[1]
               /\ (e.kind = "emit" /\ e.name = "right") =>
                      _angle' = _angle + e.args[1]]_vars

\* Whether the last thing a trace did was a reset taking effect.
ResetLast(tr) ==
    /\ tr # <<>>
    /\ tr[Len(tr)].kind = "emit"
    /\ tr[Len(tr)].name = "reset"

\* C14: when a reset has taken effect (called in immediate mode, replayed by
\* a tick or called from a listener) the turtle is shown, its pen is down,
\* step-by-step mode is off, its width is 1, its color the default color,
\* its heading 0, its position (0, 0), and the drawing is empty under the
\* glyph; the shape, the default color and the queued steps are kept.
C14_ResetState ==
    [][ResetLast(trace') =>
           /\ ~_hidden'
           /\ _isPenDown'
           /\ ~_stepByStep'
           /\ _width' = 1
           /\ _color' = _defaultColor'
           /\ _angle' = 0
           /\ _position' = <<0, 0>>
           /\ _preDrawData' = <<{}>>
           /\ \A m \in canvas' : m.kind = "glyph"
           /\ _shape' = _shape
           /\ _defaultColor' = _defaultColor
           /\ _steps' = (IF ticks' = ticks THEN _steps ELSE Tail(_steps))]_vars

\* reset was called in immediate mode after penUp had lifted the pen.
C14_Witness ==
    /\ ResetLast(trace)
    /\ Len(trace) = 6
    /\ \E i \in effected : calls[i].call.type = "PenUp"
    /\ _isPenDown

\* C16: a reset that takes effect has run setWidth, setColor, setAngle, goto
\* and clear at once, in this order, just before its own event, and the
\* action it is part of has pushed nothing on the queue.
C16_ResetHardBoundary ==
    [][\A i \in Events(trace') :
           trace'[i].name = "reset" =>
               /\ i >= 6
               /\ \A k \in 1..5 :
                      /\ trace'[i - 6 + k].kind = "emit"
                      /\ trace'[i - 6 + k].name =
                             <<"setWidth", "setColor", "setAngle", "goto",
                               "clear">>[k]
               /\ StepsOf(trace', "push") = <<>>]_vars

\* A tick has replayed a reset step issued in step-by-step mode, with a step
\* left in the queue.
C16_Witness ==
    /\ trace # <<>>
    /\ trace[1].kind = "shift"
    /\ trace[1].step.type = "Reset"
    /\ ResetLast(trace)
    /\ _steps # <<>>
    /\ ~_stepByStep

\* ----------------------------------------------------- the moving scenario
\* new Turtle(ctx, options) with the options disableWrapping, startPostition
\* (Undefined when it is not given) and startAngle, on an empty canvas of
\* the size of ctx.  A startPostition given is not copied: _position refers
\* to the object the options hold.
Turtle(ctx, options) ==
    [Fresh EXCEPT
        !.canvasWidth = ctx.width,
        !.canvasHeight = ctx.height,
        !._wrap = IF options.disableWrapping THEN FALSE ELSE @,
        !._position = IF options.startPostition # Undefined
                      THEN options.startPostition ELSE @,
        !.positionFrom = IF options.startPostition # Undefined
                         THEN "options" ELSE @,
        !._angle = IF options.startAngle # 0 THEN options.startAngle ELSE @]

\* Calls a caller makes on one turtle in the moving scenario, and the
\* longest distance it moves by on the small canvas.
MaxMoves == 2
MaxDistance == 4

\* The wrap example: a canvas of half-extents 100, a turtle at (90, 0)
\* heading along +X, forward 30.
WrapExample ==
    [ctx |-> [width |-> 200, height |-> 200],
     options |-> [disableWrapping |-> FALSE, startPostition |-> <<90, 0>>,
                  startAngle |-> 90],
     distance |-> 30]

Headings == {0, 45, 90, 135, 180, 225, 270, 315}

\* The turtles of the scenario: every start point of the small canvas
\* (edges included), heading and wrap flag, and the turtle of the example.
MoveStarts ==
    {[ctx |-> [width |-> 2 * HalfW, height |-> 2 * HalfH],
      options |-> [disableWrapping |-> nowrap, startPostition |-> <<x, y>>,
                   startAngle |-> a]] :
         nowrap \in BOOLEAN, x \in (0 - HalfW)..HalfW,
         y \in (0 - HalfH)..HalfH, a \in Headings}
    \cup {[ctx |-> WrapExample.ctx, options |-> WrapExample.options]}

MoveDistances == 1..MaxDistance \cup {WrapExample.distance}

MoveCalls ==
    {TurtleStep("Forward", <<d>>) : d \in MoveDistances}
    \cup {TurtleStep("Backward", <<d>>) : d \in MoveDistances}
    \cup {TurtleStep("Reset", <<>>)}

\* The turtle as constructed is kept in ref.
InitMove ==
    \E s \in MoveStarts :
        /\ Holds(Turtle(s.ctx, s.options))
        /\ calls = <<>>
        /\ pending = <<>>
        /\ effected = {}
        /\ dequeued = <<>>
        /\ enqueued = <<>>
        /\ ticks = 0
        /\ ref = Turtle(s.ctx, s.options)

MoveCall(c) == Issue(c, MaxMoves) /\ UNCHANGED ref

NextMove == \E c \in MoveCalls : MoveCall(c)

SpecMove == InitMove /\ [][NextMove]_vars

\* C15 (as claimed): after a reset has taken effect wrapping is enabled.
C15_ResetEnablesWrap == ResetLast(trace) => _wrap

\* The length of a segment along a heading that is a multiple of 45 degrees,
\* in the unit of that heading.
SegLength(seg) ==
    LET dx == Abs(seg.a[3] - seg.a[1])
        dy == Abs(seg.a[4] - seg.a[2])
    IN  IF dx > dy THEN dx ELSE dy

RECURSIVE SumLengths(_)
SumLengths(segs) ==
    IF segs = <<>> THEN 0 ELSE SegLength(Head(segs)) + SumLengths(Tail(segs))

\* The strokes painted on a canvas.
Strokes(marks) == {m \in marks : m.kind = "stroke"}

\* Whether the only call made so far is a forward or a backward.
OneMove == Len(calls) = 1 /\ calls[1].call.type \in {"Forward", "Backward"}

\* The segments the loop of _doStraightLine issued for that call, on the
\* turtle as constructed.
MoveSegments ==
    wrapLine(ref, IF calls[1].call.type = "Forward"
                  THEN calls[1].call.args[1]
                  ELSE 0 - calls[1].call.args[1]).segs

\* C17 (as claimed): backward(d) issues the segments of forward(d) along the
\* opposite heading, paints the same strokes and ends at the same point.
C17_BackwardIsOppositeForward ==
    (OneMove /\ calls[1].call.type = "Backward") =>
        LET d == calls[1].call.args[1]
            opposite == [ref EXCEPT !._angle = @ + 180]
        IN  /\ MoveSegments = wrapLine(opposite, d).segs
            /\ Strokes(canvas) = Strokes(_forward(opposite, d).canvas)
            /\ _position = _forward(opposite, d)._position

\* C18: with wrapping disabled, forward(d) followed by backward(d) leaves the
\* turtle at the point it started from.
C18_RoundTrip ==
    (/\ Len(calls) = 2
     /\ ~ref._wrap
     /\ calls[1].call.type = "Forward"
     /\ calls[2].call = TurtleStep("Backward", calls[1].call.args)) =>
        _position = ref._position

\* Such a round trip from the corner of the canvas along the diagonal that
\* leaves it: the point in between is outside the canvas.
C18_Witness ==
    /\ Len(calls) = 2
    /\ ~ref._wrap
    /\ calls[1].call.type = "Forward"
    /\ calls[2].call = TurtleStep("Backward", calls[1].call.args)
    /\ ref._position = <<HalfW, HalfH>>
    /\ ref._angle = 45
    /\ _position = ref._position

\* C19 (as claimed): the lengths of the segments issued for one forward(d)
\* or backward(d) sum to d.
C19_LengthConserved ==
    OneMove => SumLengths(MoveSegments) = calls[1].call.args[1]

\* C20 (as claimed): in the wrap example the segments are (90,0)-(100,0) and
\* (-100,0)-(-80,0), and the turtle rests at (-80,0).
C20_WrapExample ==
    (/\ ref = Turtle(WrapExample.ctx, WrapExample.options)
     /\ Len(calls) = 1
     /\ calls[1].call = TurtleStep("Forward", <<WrapExample.distance>>)) =>
        /\ MoveSegments = <<Line(90, 0, 100, 0), Line(0 - 100, 0, 0 - 80, 0)>>
        /\ _position = <<0 - 80, 0>>

\* The distances to the edges that an iteration of the loop computes when it
\* starts at seg = (x, y) - (newX, newY), on the turtle as constructed.
EdgeX(seg) ==
    AbsQuotient(IF seg.a[3] > seg.a[1]
                THEN ref.canvasWidth \div 2 - seg.a[1]
                ELSE ref.canvasWidth \div 2 + seg.a[1],
                sinDeg(ref._angle))
EdgeY(seg) ==
    AbsQuotient(IF seg.a[4] > seg.a[2]
                THEN ref.canvasHeight \div 2 - seg.a[2]
                ELSE ref.canvasHeight \div 2 + seg.a[2],
                cosDeg(ref._angle))

\* Whether the destination of an iteration is outside the canvas.
Leaves(seg) ==
    \/ Abs(seg.a[3]) > ref.canvasWidth \div 2
    \/ Abs(seg.a[4]) > ref.canvasHeight \div 2

\* C21: in a forward with wrapping enabled, an iteration whose destination is
\* outside the canvas and whose distance to the X edge is at most its
\* distance to the Y edge (both as the loop computes them, and defined)
\* wraps through X: the next iteration starts on the opposite X edge, with y
\* carried on; when the two distances are equal the iteration after that
\* starts on the opposite Y edge, with x as the X wrap left it.
C21_TieBreak ==
    (OneMove /\ calls[1].call.type = "Forward" /\ ref._wrap) =>
        \A i \in DOMAIN MoveSegments :
            LET seg == MoveSegments[i]
                w == ref.canvasWidth \div 2
                h == ref.canvasHeight \div 2
                ex == EdgeX(seg)
                ey == EdgeY(seg)
            IN  (/\ Leaves(seg)
                 /\ ex.k = "num"
                 /\ \/ ey.k = "inf"
                    \/ ey.k = "num" /\ ex.v <= ey.v) =>
                    /\ i < Len(MoveSegments)
                    /\ MoveSegments[i + 1] =
                           Line(IF seg.a[3] > 0 THEN 0 - w ELSE w,
                                seg.a[2] + cosDeg(ref._angle) * ex.v,
                                IF seg.a[3] > 0 THEN seg.a[3] - 2 * w
                                ELSE seg.a[3] + 2 * w,
                                seg.a[4])
                    /\ (ey.k = "num" /\ ey.v = ex.v) =>
                           /\ i + 2 <= Len(MoveSegments)
                           /\ MoveSegments[i + 2].a[1] = MoveSegments[i + 1].a[1]
                           /\ MoveSegments[i + 2].a[2] =
                                  (IF seg.a[4] > 0 THEN 0 - h ELSE h)

\* forward(3) from the centre of the small canvas along the diagonal leaves
\* through the corner: three segments, the X wrap first.
C21_Witness ==
    /\ OneMove
    /\ ref._wrap
    /\ ref._position = <<0, 0>>
    /\ ref._angle = 45
    /\ calls[1].call = TurtleStep("Forward", <<HalfW + 1>>)
    /\ HalfW = HalfH
    /\ Len(MoveSegments) = 3
    /\ MoveSegments[2].a[1] = 0 - HalfW
    /\ MoveSegments[2].a[2] = HalfH
    /\ _position = <<1 - HalfW, 1 - HalfH>>

\* C22 (as claimed): in a forward along an axis with wrapping enabled, no
\* iteration of the loop computes an undefined edge distance (0/0), and the
\* move wraps through every boundary it reaches: the last iteration ends
\* inside the canvas.
C22_ZeroDirectionGuard ==
    (/\ OneMove
     /\ calls[1].call.type = "Forward"
     /\ ref._wrap
     /\ ref._angle % 90 = 0) =>
        /\ \A i \in DOMAIN MoveSegments :
               /\ EdgeX(MoveSegments[i]).k # "nan"
               /\ EdgeY(MoveSegments[i]).k # "nan"
        /\ ~Leaves(MoveSegments[Len(MoveSegments)])

\* ------------------------------------------------------ the goto scenario
\* A caller that moves the turtle by goto, to a point of the canvas and to a
\* point outside it, with the pen down or up, at once or through the queue,
\* in at most MaxGotoCalls calls.
MaxGotoCalls == 3

GotoPoints == {<<1, HalfH>>, <<HalfW + 1, 0 - (HalfH + 2)>>}

GotoCalls ==
    {TurtleStep("Goto", p) : p \in GotoPoints}
    \cup {TurtleStep("Forward", <<d>>) : d \in Distances}
    \cup {TurtleStep("PenUp", <<>>), TurtleStep("SetSpeed", <<50>>)}

GotoCall(c) == Issue(c, MaxGotoCalls) /\ UNCHANGED ref

NextGoto ==
    \/ \E c \in GotoCalls : GotoCall(c)
    \/ Tick

SpecGoto == Init /\ [][NextGoto]_vars

\* C23: when a goto(x, y) has taken effect (called in immediate mode or
\* replayed by a tick) the position is (x, y), whether or not the point is
\* on the canvas; the strokes painted are those painted before; and the
\* heading, the pen, the color, the width, the mode, the timer and the queue
\* (but for the step replayed) are unchanged.
C23_GotoSetsPosition ==
    [][(/\ trace' # <<>>
        /\ trace'[Len(trace')].kind = "emit"
        /\ trace'[Len(trace')].name = "goto") =>
           /\ _position' = trace'[Len(trace')].args
           /\ Strokes(canvas') = Strokes(canvas)
           /\ _preDrawData' # Undefined
           /\ Strokes(_preDrawData'[1]) = Strokes(canvas)
           /\ UNCHANGED <<_angle, _isPenDown, _color, _width, _hidden, _wrap,
                          _shape, _stepByStep, _speed, _interval, timers>>
           /\ _steps' = (IF ticks' = ticks THEN _steps ELSE Tail(_steps))]_vars

\* A goto to a point outside the canvas has taken effect with the pen down,
\* after a line had been drawn.
C23_Witness ==
    /\ LastEvent.name = "goto"
    /\ Abs(_position[1]) > HalfW
    /\ Abs(_position[2]) > HalfH
    /\ _wrap
    /\ _isPenDown
    /\ Strokes(canvas) # {}

\* -------------------------------------------------------- the pair scenario
\* Two turtles, the one of the state and ref, constructed from one options
\* object, each on a canvas of its own; the caller makes at most
\* MaxPairCalls calls on the first.
MaxPairCalls == 3

PairOptions ==
    {[disableWrapping |-> FALSE, startPostition |-> p, startAngle |-> 0] :
         p \in {Undefined, <<1, 1>>, <<0 - 1, 0>>}}

PairCalls ==
    {TurtleStep("Goto", p) : p \in Points}
    \cup {TurtleStep("Forward", <<d>>) : d \in Distances}
    \cup {TurtleStep("Left", <<a>>) : a \in Degrees}
    \cup {TurtleStep("SetWidth", <<n>>) : n \in Widths}
    \cup {TurtleStep("PenUp", <<>>), TurtleStep("Hide", <<>>)}

InitPair ==
    \E o \in PairOptions :
        LET ctx == [width |-> 2 * HalfW, height |-> 2 * HalfH]
        IN  /\ Holds(Turtle(ctx, o))
            /\ calls = <<>>
            /\ pending = <<>>
            /\ effected = {}
            /\ dequeued = <<>>
            /\ enqueued = <<>>
            /\ ticks = 0
            /\ ref = Turtle(ctx, o)

\* The turtle other once an operation has left the turtle it was called on
\* as t: the assignments to this._position.x and this._position.y write the
\* object _position refers to, which is other's too when both took it from
\* the options.
WrittenThrough(other, t) ==
    IF t.positionFrom = "options" /\ other.positionFrom = "options"
    THEN [other EXCEPT !._position = t._position]
    ELSE other

PairCall(c) ==
    /\ Issue(c, MaxPairCalls)
    /\ ref' = WrittenThrough(ref, Invoke(self, c))

NextPair == \E c \in PairCalls : PairCall(c)

SpecPair == InitPair /\ [][NextPair]_vars

\* C24 (as claimed): an operation on one turtle changes no field of the
\* other turtle.
C24_Isolation == [][ref' = ref]_vars

\* ------------------------------------------------- the auto-run scenario
\* The later version of the turtle, with the option autoDraw (Undefined
\* when it is not given): new Turtle(ctx, options).  The option is stored
\* only when it is truthy, and the turtle is drawn.
TurtleWithAutoDraw(options) ==
    drawTurtle([Fresh EXCEPT
        !._autoDraw = IF options.autoDraw = <<TRUE>>
                      THEN options.autoDraw[1] ELSE @])

\* _setSpeed of the later version
_setSpeedAutoDraw(t, ms) ==
    LET t1 == stopDrawing([t EXCEPT !._stepByStep = ms > 0,
                                    !._speed = <<ms>>])
    IN  IF t1._autoDraw THEN startDrawing(t1) ELSE t1

setSpeedAutoDraw(t, ms) ==
    IF isInStep(t) THEN emit(_setSpeedAutoDraw(t, ms), "setSpeed", <<ms>>)
    ELSE push(t, TurtleStep("SetSpeed", <<ms>>))

\* A call of a public operation of the later version.
InvokeAutoDraw(t, c) ==
    IF c.type = "SetSpeed" THEN setSpeedAutoDraw(t, c.args[1])
    ELSE Invoke(t, c)

doStepAutoDraw(t, step) ==
    LET t1 == emitStep(t, step)
    IN  IF step.type = "SetSpeed" THEN setSpeedAutoDraw(t1, step.args[1])
        ELSE dispatchStep(t1, step)

nextStepAutoDraw(t) ==
    IF t._steps # <<>>
    THEN LET t1 == shiftStep(t)
         IN  [doStepAutoDraw(t1, Taken(t1)) EXCEPT !._step = FALSE]
    ELSE IF t._interval # Undefined THEN stopDrawing(t)
    ELSE t

MaxAutoCalls == 3

\* The options a turtle of the scenario is constructed with.
AutoOptions == {[autoDraw |-> a] : a \in {Undefined, <<TRUE>>, <<FALSE>>}}

AutoCalls ==
    {TurtleStep("SetSpeed", <<ms>>) : ms \in Speeds}
    \cup {TurtleStep("Forward", <<d>>) : d \in Distances}
    \cup {TurtleStep("PenUp", <<>>)}

\* ref keeps the options the turtle was constructed with.
InitAuto ==
    \E o \in AutoOptions :
        /\ Holds(TurtleWithAutoDraw(o))
        /\ calls = <<>>
        /\ pending = <<>>
        /\ effected = {}
        /\ dequeued = <<>>
        /\ enqueued = <<>>
        /\ ticks = 0
        /\ ref = o

AutoCall(c) ==
    /\ Cardinality(CallerCalls) < MaxAutoCalls
    /\ LET r == InvokeAutoDraw(self, c)
       IN  Becomes(r) /\ Record(c, self, r.trace, TookEffect(r.trace, c.type))
    /\ UNCHANGED ref

AutoStart == Start(MaxAutoCalls)

\* An armed timer fires: nextStep() of the later version.
AutoTick ==
    /\ timers # {}
    /\ LET r == nextStepAutoDraw(self)
           busy == _steps # <<>>
       IN  /\ Becomes(r)
           /\ pending' = IF busy THEN Tail(pending) ELSE pending
           /\ effected' =
                  effected
                  \cup (IF busy /\ TookEffect(r.trace,
                                              calls[Head(pending)].call.type)
                        THEN {Head(pending)} ELSE {})
           /\ dequeued' = dequeued \o StepsOf(r.trace, "shift")
           /\ ticks' = ticks + 1
    /\ UNCHANGED <<calls, enqueued, ref>>

NextAuto ==
    \/ \E c \in AutoCalls : AutoCall(c)
    \/ AutoStart
    \/ AutoTick

SpecAuto == InitAuto /\ [][NextAuto]_vars

\* C25 (as claimed): once a setSpeed(ms) with ms > 0 has taken effect the
\* mode is on; a turtle constructed with autoDraw: false then holds no
\* timer, and any other turtle holds exactly one.
C25_AutoRunPolicy ==
    (LastEvent.name = "setSpeed" /\ LastEvent.args[1] > 0) =>
        /\ _stepByStep
        /\ IF ref.autoDraw = <<FALSE>>
           THEN _interval = Undefined /\ timers = {}
           ELSE _interval # Undefined /\ timers = {_interval[1]}

\* C26 (as claimed): in every reachable state step-by-step mode is active
\* exactly when the speed is set and greater than 0.
C26_ModeDerivedFromSpeed ==
    _stepByStep <=> (_speed # Undefined /\ _speed[1] > 0)

\* The places of the 'step' events in a trace.
StepEvents(tr) ==
    {i \in Events(tr) : tr[i].name = "step"}

\* C27: a tick that takes a step from the queue emits one 'step' event
\* that carries the step, right after taking it and before every other
\* event of the tick; a tick on an empty queue and a caller's call emit no
\* 'step' event.
C27_StepEventPerReplay ==
    [][IF ticks' # ticks /\ _steps # <<>>
       THEN /\ trace'[1] = Shifted(Head(_steps))
            /\ StepEvents(trace') = {2}
            /\ trace'[2].step = Head(_steps)
            /\ \A i \in Events(trace') : i >= 2
       ELSE StepEvents(trace') = {}]_vars

\* A tick replayed a step whose operation emitted its own event.
C27_Witness ==
    /\ ticks > 0
    /\ Len(trace) >= 3
    /\ trace[1].kind = "shift"
    /\ trace[2].name = "step"
    /\ trace[3].kind = "emit"
    /\ trace[3].name = EventOf(trace[1].step.type)

\* The private operation the immediate branch of a public operation runs.
Effect(t, c) ==
    CASE c.type = "Forward" -> _forward(t, c.args[1])
      [] c.type = "Backward" -> _backward(t, c.args[1])
      [] c.type = "Left" -> _left(t, c.args[1])
      [] c.type = "Right" -> _right(t, c.args[1])
      [] c.type = "SetAngle" -> _setAngle(t, c.args[1])
      [] c.type = "Hide" -> _hide(t)
      [] c.type = "Show" -> _show(t)
      [] c.type = "PenUp" -> _penUp(t)
      [] c.type = "PenDown" -> _penDown(t)
      [] c.type = "PenToggle" -> _penToggle(t)
      [] c.type = "Reset" -> _reset(t)
      [] c.type = "Clear" -> _clear(t)
      [] c.type = "Goto" -> _goto(t, c.args[1], c.args[2])
      [] c.type = "SetColor" -> _setColor(t, c.args)
      [] c.type = "SetWidth" -> _setWidth(t, c.args[1])
      [] c.type = "SetShape" -> _setShape(t, c.args[1])
      [] c.type = "SetSpeed" -> _setSpeed(t, c.args[1])
      [] c.type = "SetLineCap" -> _setLineCap(t, c.args[1])

\* The places in a trace of the event of the operation a call names.
OwnEvents(tr, c) ==
    {i \in Events(tr) : tr[i].name = EventOf(c.type)}

\* C28: a caller's call of an operation made while step-by-step mode is
\* off leaves the turtle as the operation's private part leaves it, emits
\* the operation's event once, as the last thing it does, and leaves the
\* queue as it was; and nothing called while a tick replays a step (the
\* listener registered for 'step' included) is put on the queue: the
\* listener's call takes effect within the tick.
C28_ImmediateBranch ==
    [][/\ (/\ calls' # calls
           /\ LastCall'.by = "caller"
           /\ LastCall'.call \in OpCalls
           /\ ~_stepByStep) =>
              /\ self' = [Effect(self, LastCall'.call) EXCEPT !.trace = <<>>]
              /\ OwnEvents(trace', LastCall'.call) = {Len(trace')}
              /\ StepsOf(trace', "push") = <<>>
              /\ _steps' = _steps
              /\ Len(calls') \in effected'
       /\ (ticks' # ticks /\ _steps # <<>>) =>
              /\ StepsOf(trace', "push") = <<>>
              /\ _steps' = Tail(_steps)
              /\ (calls' # calls) =>
                     /\ LastCall'.by = "listener"
                     /\ LastCall'.inStep
                     /\ Len(calls') \in effected'
                     /\ trace'[3].kind = "emit"
                     /\ OwnEvents(trace', LastCall'.call) # {}]_vars

\* A goto called in immediate mode has moved the turtle and emitted 'goto'.
C28_Witness ==
    /\ calls # <<>>
    /\ LastCall.by = "caller"
    /\ LastCall.call.type = "Goto"
    /\ ~LastCall.active
    /\ _position = LastCall.call.args
    /\ LastEvent.name = "goto"
    /\ Len(calls) \in effected

\* ------------------------------------------------------ the pen scenario
\* A caller that moves the turtle with the pen up and down, shown and
\* hidden, in immediate mode and through the queue, in at most MaxPenCalls
\* calls.
MaxPenCalls == 4

PenCalls ==
    {TurtleStep("Forward", <<d>>) : d \in Distances}
    \cup {TurtleStep("Backward", <<d>>) : d \in Distances}
    \cup {TurtleStep(type, <<>>) : type \in {"PenUp", "PenDown", "Hide"}}
    \cup {TurtleStep("SetSpeed", <<50>>)}

PenCall(c) == Issue(c, MaxPenCalls) /\ UNCHANGED ref

NextPen ==
    \/ \E c \in PenCalls : PenCall(c)
    \/ Tick

SpecPen == Init /\ [][NextPen]_vars

\* The marks of a saved drawing, none when no drawing was saved.
Saved(data) == IF data = Undefined THEN {} ELSE data[1]

\* The distance of the forward or backward a trace executed.
Moved(tr, name) ==
    LET i == CHOOSE i \in Events(tr) : tr[i].name = name
    IN  tr[i].args[1]

\* C29: an operation or tick that starts with the pen up adds no stroke to
\* the canvas or to the saved drawing; a forward or backward executed with
\* the pen up leaves the strokes as they were and takes the turtle to the
\* end of the move; a forward executed with the pen down adds the strokes
\* of the segments of the move, of which there is at least one.
C29_PenGating ==
    [][/\ ~_isPenDown =>
              /\ Strokes(canvas') \subseteq Strokes(canvas)
              /\ Strokes(Saved(_preDrawData')) \subseteq Strokes(canvas)
       /\ (~_isPenDown /\ TookEffect(trace', "Forward")) =>
              LET r == wrapLine(self, Moved(trace', "forward"))
              IN  /\ Strokes(canvas') = Strokes(canvas)
                  /\ _position' = <<r.newX, r.newY>>
                  /\ _position' # _position
       /\ (~_isPenDown /\ TookEffect(trace', "Backward")) =>
              LET r == wrapLine(self, 0 - Moved(trace', "backward"))
              IN  /\ Strokes(canvas') = Strokes(canvas)
                  /\ _position' = <<r.newX, r.newY>>
                  /\ _position' # _position
       /\ (_isPenDown /\ TookEffect(trace', "Forward")) =>
              LET r == wrapLine(self, Moved(trace', "forward"))
                  added == {Stroke(r.segs[i], self) : i \in DOMAIN r.segs}
              IN  /\ added # {}
                  /\ Strokes(canvas') = Strokes(canvas) \cup added
                  /\ Strokes(Saved(_preDrawData')) = Strokes(canvas')]_vars

\* A forward ran with the pen up after a line had been drawn: the turtle
\* has moved and the line is the only stroke.
C29_Witness ==
    /\ LastEvent.name = "forward"
    /\ ~_isPenDown
    /\ _position # Fresh._position
    /\ Cardinality(Strokes(canvas)) = 1
    /\ \E i, j \in DOMAIN calls :
           /\ i < j
           /\ calls[i].call.type = "Forward"
           /\ calls[j].call.type = "Forward"
           /\ {i, j} \subseteq effected

\* Whether the point (x, y) lies on the canvas of the turtle t.
OnCanvas(t, x, y) ==
    /\ Abs(x) <= t.canvasWidth \div 2
    /\ Abs(y) <= t.canvasHeight \div 2

\* C30 (as claimed): when a forward starts on the canvas of a wrapping
\* turtle, both ends of every segment it issues lie on the canvas.
C30_SegmentsOnCanvas ==
    (/\ OneMove
     /\ calls[1].call.type = "Forward"
     /\ ref._wrap
     /\ OnCanvas(ref, ref._position[1], ref._position[2])) =>
        \A i \in DOMAIN MoveSegments :
            LET seg == MoveSegments[i].a
            IN  /\ OnCanvas(ref, seg[1], seg[2])
                /\ OnCanvas(ref, seg[3], seg[4])

\* The fields setSpeed has no business with: all but the speed, the mode,
\* the timer and the queue.
beside ==
    <<_hidden, _wrap, _isPenDown, _preDrawData, _color, _defaultColor,
      _width, _position, _angle, _shape, positionFrom, _autoDraw,
      canvasWidth, canvasHeight, canvas, path, lineCap, stepListener>>

\* C31: a tick that replays a SetSpeed step of a turtle without a 'step'
\* listener sets the speed and the mode, leaves the rest of the queue as
\* it was, in the same order, executes none of it (the only events are
\* 'step' and 'setSpeed') and changes no other field.
C31_SetSpeedReplayFrame ==
    [][(/\ ticks' # ticks
        /\ _steps # <<>>
        /\ Head(_steps).type = "SetSpeed"
        /\ stepListener = NoStep) =>
           /\ _steps' = Tail(_steps)
           /\ _speed' = <<Head(_steps).args[1]>>
           /\ _stepByStep' = (Head(_steps).args[1] > 0)
           /\ ~_step'
           /\ {trace'[i].name : i \in Events(trace')} = {"step", "setSpeed"}
           /\ StepsOf(trace', "shift") = <<Head(_steps)>>
           /\ UNCHANGED beside]_vars

\* A tick has replayed a SetSpeed step and two different steps that were
\* queued behind it are still in the queue.
C31_Witness ==
    /\ stepListener = NoStep
    /\ trace # <<>>
    /\ trace[1].kind = "shift"
    /\ trace[1].step.type = "SetSpeed"
    /\ LastEvent.name = "setSpeed"
    /\ Len(_steps) >= 2
    /\ _steps[1] # _steps[2]
    /\ _steps = SubSeq(enqueued, Len(dequeued) + 1, Len(enqueued))

\* ----------------------------------------------------- the grid scenario
\* A caller that draws grids between other calls, in either mode, and may
\* have registered a 'step' listener that draws a grid, in at most
\* MaxGridCalls calls.
MaxGridCalls == 3

\* The numbers of separations asked for; 1 is raised to 2.
Separations == {1, 2, 4}

GridCalls ==
    {TurtleStep("DrawGrid", <<n>>) : n \in Separations}
    \cup {TurtleStep("Forward", <<d>>) : d \in Distances}
    \cup {TurtleStep("Left", <<a>>) : a \in Degrees}
    \cup {TurtleStep("SetSpeed", <<50>>), TurtleStep("PenUp", <<>>)}

GridListenerCalls == {TurtleStep("DrawGrid", <<2>>)}

GridCall(c) == Issue(c, MaxGridCalls) /\ UNCHANGED ref

\* The timer fires at most MaxGridTicks times.
MaxGridTicks == 4

GridTick == ticks < MaxGridTicks /\ Tick

NextGrid ==
    \/ \E c \in GridCalls : GridCall(c)
    \/ \E c \in GridListenerCalls : On(c)
    \/ GridTick

SpecGrid == Init /\ [][NextGrid]_vars

\* What drawGrid is to leave as it found it.
GridFrame(t) ==
    <<t._angle, t._color, t._width, t._position, t._isPenDown, t._step,
      t._steps>>

\* C32 (as claimed): a drawGrid called by the caller, in either mode, and
\* one called by the 'step' listener while a tick replays a step, leaves
\* the queue, the angle, color, width, position, pen state and the _step
\* flag as they were just before the call, and the tick pushes nothing.
C32_DrawGridFrame ==
    [][/\ (/\ calls' # calls
           /\ LastCall'.by = "caller"
           /\ LastCall'.call.type = "DrawGrid") =>
              /\ GridFrame(self') = GridFrame(self)
              /\ StepsOf(trace', "push") = <<>>
       /\ (/\ ticks' # ticks
           /\ _steps # <<>>
           /\ stepListener.type = "DrawGrid") =>
              LET t1 == shiftStep(self)
                  called == [t1 EXCEPT !.stepListener = NoStep]
                  before == emitStep(called, Taken(t1))
                  after == drawGrid(before, stepListener.args[1])
              IN  /\ GridFrame(after) = GridFrame(before)
                  /\ StepsOf(trace', "push") = <<>>]_vars

\* C33 (as claimed): an operation the caller calls while the queue holds
\* steps does not take effect in that call: it is put on the queue behind
\* them.
C33_NoOvertaking ==
    [][(/\ calls' # calls
        /\ LastCall'.by = "caller"
        /\ LastCall'.call \in TimerCalls
        /\ _steps # <<>>) =>
           /\ Len(calls') \notin effected'
           /\ _steps' = Append(_steps, LastCall'.call)]_vars

\* C34 (as claimed): in no reachable state do steps sit in the queue while
\* step-by-step mode is active, no step is being replayed and no timer is
\* armed.
C34_NoStrandedSteps ==
    ~(/\ _steps # <<>>
      /\ _stepByStep
      /\ ~_step
      /\ timers = {})

\* C35 (as claimed): a forward from a position on the canvas of a wrapping
\* turtle leaves the turtle on the canvas.
C35_StaysOnCanvas ==
    (/\ OneMove
     /\ calls[1].call.type = "Forward"
     /\ ref._wrap
     /\ OnCanvas(ref, ref._position[1], ref._position[2])) =>
        OnCanvas(ref, _position[1], _position[2])

\* ------------------------------------------- the loop in double arithmetic
\* The numbers of _doStraightLine are doubles: the result of every addition
\* and subtraction is rounded to the nearest number the format holds (ties
\* to the even mantissa).  The model keeps MantissaBits bits of mantissa
\* where a double keeps 53, so that the magnitudes at which the canvas size
\* is below the spacing of the numbers are within reach.
MantissaBits == 3

\* The spacing of the representable numbers at the magnitude a >= 0.
RECURSIVE Spacing(_)
Spacing(a) == IF a < 2 ^ MantissaBits THEN 1 ELSE 2 * Spacing(a \div 2)

Round(n) ==
    LET a == Abs(n)
        q == Spacing(a)
        lo == a - (a % q)
        up == IF \/ 2 * (a % q) > q
                 \/ 2 * (a % q) = q /\ (lo \div q) % 2 = 1
              THEN lo + q ELSE lo
    IN  IF n < 0 THEN 0 - up ELSE up

\* The loop is followed one iteration at a time, at most MaxIterations
\* iterations, with its variables in ref.
MaxIterations == 20

\* The distance from which the subtractions of the loop change nothing on
\* the small canvas.
FarAway == 2 ^ (MantissaBits + 3)

LoopHeadings == {0, 90, 180, 270}

LoopStarts ==
    {[disableWrapping |-> nowrap, startPostition |-> <<x, y>>,
      startAngle |-> a] :
         nowrap \in BOOLEAN, x \in (0 - HalfW)..HalfW,
         y \in (0 - HalfH)..HalfH, a \in LoopHeadings}

LoopDistances == {0 - 1, 0, 1, 3, 2 * HalfW + 1, FarAway}

InitLoop ==
    \E o \in LoopStarts :
        /\ Holds(Turtle([width |-> 2 * HalfW, height |-> 2 * HalfH], o))
        /\ calls = <<>>
        /\ pending = <<>>
        /\ effected = {}
        /\ dequeued = <<>>
        /\ enqueued = <<>>
        /\ ticks = 0
        /\ ref = [pc |-> "idle", x |-> 0, y |-> 0, newX |-> 0, newY |-> 0,
                  distance |-> 0, given |-> 0, from |-> <<0, 0>>,
                  iterations |-> 0]

\* _doStraightLine(distance) up to the loop.
LoopEnter(distance) ==
    /\ ref.pc = "idle"
    /\ ref' = [pc |-> "loop",
               x |-> _position[1],
               y |-> _position[2],
               newX |-> Round(_position[1] + sinDeg(_angle) * distance),
               newY |-> Round(_position[2] + cosDeg(_angle) * distance),
               distance |-> distance, given |-> distance,
               from |-> _position, iterations |-> 0]
    /\ UNCHANGED <<fields, stepListener, trace, history>>

\* One iteration of the loop: while (distance > 0) { ... }.
LoopIterate ==
    /\ ref.pc = "loop"
    /\ ref.distance > 0
    /\ ref.iterations < MaxIterations
    /\ LET s == ref
           sinAngle == sinDeg(_angle)
           cosAngle == cosDeg(_angle)
           w == canvasWidth \div 2
           h == canvasHeight \div 2
           distanceToEdgeX ==
               AbsQuotient(IF s.newX > s.x THEN Round(w - s.x)
                           ELSE Round(w + s.x), sinAngle)
           distanceToEdgeY ==
               AbsQuotient(IF s.newY > s.y THEN Round(h - s.y)
                           ELSE Round(h + s.y), cosAngle)
       IN  ref' =
               IF /\ _wrap
                  /\ Abs(s.newX) > w
                  /\ LessEq(distanceToEdgeX, distanceToEdgeY)
               THEN [s EXCEPT
                        !.x = IF s.newX > 0 THEN 0 - w ELSE w,
                        !.y = Round(s.y + cosAngle * distanceToEdgeX.v),
                        !.newX = Round(s.newX - (IF s.newX > 0 THEN w * 2
                                                 ELSE 0 - (w * 2))),
                        !.distance = Round(s.distance - distanceToEdgeX.v),
                        !.iterations = @ + 1]
               ELSE IF /\ _wrap
                       /\ Abs(s.newY) > h
                       /\ LessEq(distanceToEdgeY, distanceToEdgeX)
               THEN [s EXCEPT
                        !.y = IF s.newY > 0 THEN 0 - h ELSE h,
                        !.x = Round(s.x + sinAngle * distanceToEdgeY.v),
                        !.newY = Round(s.newY - (IF s.newY > 0 THEN h * 2
                                                 ELSE 0 - (h * 2))),
                        !.distance = Round(s.distance - distanceToEdgeY.v),
                        !.iterations = @ + 1]
               ELSE [s EXCEPT !.distance = 0, !.iterations = @ + 1]
    /\ UNCHANGED <<fields, stepListener, trace, history>>

\* The loop is left and the turtle goes to the destination.
LoopExit ==
    /\ ref.pc = "loop"
    /\ ~(ref.distance > 0)
    /\ Becomes(goto(self, ref.newX, ref.newY))
    /\ ref' = [ref EXCEPT !.pc = "done"]
    /\ UNCHANGED history

NextLoop ==
    \/ \E d \in LoopDistances : LoopEnter(d)
    \/ LoopIterate
    \/ LoopExit

SpecLoop == InitLoop /\ [][NextLoop]_vars

\* The boundaries a move of d along one axis crosses from the coordinate c
\* of a canvas of half-extent e: those strictly before its destination.
Crossings(c, d, e) ==
    IF Abs(c + d) > e THEN (Abs(c + d) - e + 2 * e - 1) \div (2 * e) ELSE 0

\* C36 (as claimed): the loop runs no iteration for a distance <= 0 and
\* otherwise at most one per boundary the move crosses and one more, for
\* every start, heading, wrap flag and distance.
C36_LoopTerminates ==
    ref.pc # "idle" =>
        /\ ref.given <= 0 => ref.iterations = 0
        /\ ref.iterations <=
               Crossings(ref.from[1], sinDeg(_angle) * ref.given,
                         canvasWidth \div 2)
               + Crossings(ref.from[2], cosDeg(_angle) * ref.given,
                           canvasHeight \div 2)
               + 1

\* The cursor glyphs among the marks of a drawing.
Glyphs(marks) == {m \in marks : m.kind \in {"glyph", "outline"}}

\* C37 (as claimed): in every reachable state the saved drawing holds no
\* glyph, and the canvas holds no glyph but the one of the turtle as it is.
C37_GlyphOverlay ==
    /\ Glyphs(Saved(_preDrawData)) = {}
    /\ Glyphs(canvas) \subseteq {Glyph(self)}

\* ---------------------------------------------------- the throw scenario
\* A caller that may have registered a 'step' listener that throws, and
\* then sets the speed, moves and turns, in at most MaxThrowCalls calls.
MaxThrowCalls == 3

ThrowCalls ==
    {TurtleStep("SetSpeed", <<50>>)}
    \cup {TurtleStep("Forward", <<d>>) : d \in Distances}
    \cup {TurtleStep("Left", <<a>>) : a \in Degrees}
    \cup {TurtleStep("PenUp", <<>>)}

ThrowListenerCalls == {TurtleStep("Throw", <<>>)}

ThrowCall(c) == Issue(c, MaxThrowCalls) /\ UNCHANGED ref

NextThrow ==
    \/ \E c \in ThrowCalls : ThrowCall(c)
    \/ \E c \in ThrowListenerCalls : On(c)
    \/ Tick

SpecThrow == Init /\ [][NextThrow]_vars

\* C38 (as claimed): _step is false after every call and every tick, also
\* a tick whose 'step' listener throws, and an operation the caller calls
\* in step-by-step mode is put on the queue and does not take effect.
C38_StepFlagCleared ==
    [][/\ ~_step'
       /\ (/\ calls' # calls
           /\ LastCall'.by = "caller"
           /\ _stepByStep) =>
              /\ Len(calls') \notin effected'
              /\ _steps' = Append(_steps, LastCall'.call)]_vars

====
